---- MODULE Spec2Model ----
(***************************************************************************)
(* The tile map of src/resources/board.rs: TileMap (dim, n_mines, tiles),  *)
(* its constructors empty / random, its coordinate entry points, and the   *)
(* TileView cursors that alias the map's buffer.                           *)
(*                                                                         *)
(* A coordinate or dimension (IVec2) is a pair <<x, y>>.  The buffer       *)
(* `tiles` is a function on 0 .. len-1 (the slice's own indices).  An      *)
(* Option is a sequence of length 0 (None) or 1 (Some).  A TileView is a   *)
(* record of its coord, n_mines and dim fields; its `tiles` field is a     *)
(* reference to the map's buffer, so every read and write of a view goes   *)
(* to the one variable `tiles`.                                            *)
(***************************************************************************)
EXTENDS Integers, Sequences, FiniteSets

\* Largest width and height passed to a constructor.
MaxWidth == 3
MaxHeight == 3
\* Largest number of cells of a grid passed to a constructor.
MaxArea == 9
\* Largest number of set_state calls on one map; a run is followed up to
\* the last of them.
MaxWrites == 1
\* Largest number of coordinates passed to get_tiles at once.
MaxCoords == 3
\* set_state calls followed one after another, and the largest map written
MaxWriteSeq == 2
MaxWriteArea == 2
\* the same for writes of any Clear(u8)
MaxCastWrites == 1
MaxCastArea == 1

VARIABLES
    pc,       \* "start" | "shuffle" | "derive" | "ready" | "panicked"
    call,     \* the constructor call: [fn, width, height, n_mines]
    n_mines,  \* TileMap.n_mines
    dim,      \* TileMap.dim
    tiles,    \* TileMap.tiles
    i,        \* loop index of random's shuffle, then of its derivation pass
    views,    \* the caller's live TileView values, by name
    op,       \* the last operation on the ready map: [name, view, coord, state]
    ret,      \* the sequence the last operation returned
    writes,   \* number of set_state calls so far
    visited   \* positions in all_tiles() that random's derivation has written

vars == <<pc, call, n_mines, dim, tiles, i, views, op, ret, writes, visited>>

----------------------------------------------------------------------------
(* Values *)

None == <<>>
Some(v) == <<v>>

\* enum TileState { Mine, Clear(u8) }
Mine == <<"Mine">>
Clear(n) == <<"Clear", n>>

ViewIds == {"A", "B"}

\* u8 -> i8, usize -> i8 and i8 -> u8 `as` casts (two's complement, 8 bits).
AsI8_saturating(n) == IF n > 127 THEN 127 ELSE n

\* n as i8, n as u8
AsI8(n) == ((n + 128) % 256) - 128
AsU8(n) == n % 256

\* i32::MAX and i32::MIN, the range of an IVec2 component
I32Max == 2147483647
I32Min == -I32Max - 1

\* Whether a + b leaves the i32 range (a, b in range).
add_overflows(a, b) ==
    \/ b > 0 /\ a > I32Max - b
    \/ b < 0 /\ a < I32Min - b

\* a + b modulo 2^32, as an i32: what `+` gives without overflow checks.
wrapping_add(a, b) ==
    IF b > 0 /\ a > I32Max - b THEN (a - I32Max - 1) + (b - I32Max - 1)
    ELSE IF b < 0 /\ a < I32Min - b THEN (a + I32Max + 1) + (b + I32Max + 1)
    ELSE a + b

\* IVec2 + IVec2
Add(a, b) == <<a[1] + b[1], a[2] + b[2]>>

TilesLen(t) == Cardinality(DOMAIN t)

----------------------------------------------------------------------------
(* Pure functions of board.rs *)

bound_check_le(coord, d) ==
    /\ coord[1] >= 0 /\ coord[2] >= 0
    /\ coord[1] <= d[1] /\ coord[2] <= d[2]

\* coord.cmpge(IVec2::ZERO).all() && coord.cmplt(dim).all()
bound_check(coord, d) ==
    /\ coord[1] >= 0 /\ coord[2] >= 0
    /\ coord[1] < d[1] /\ coord[2] < d[2]

empty_tiles_short(width, height) == [k \in 0 .. (width * height - 2) |-> 0]

\* vec![0; (width * height) as usize]
empty_tiles(width, height) == [k \in 0 .. (width * height - 1) |-> 0]

fill_panics_never(t, n) == FALSE

\* board.tiles[..n_mines as usize]: the slice index fails when n > len
fill_panics(t, n) == n > TilesLen(t)

\* board.tiles[..n_mines as usize].fill(-1)
fill(t, n) == [k \in DOMAIN t |-> IF k < n THEN -1 ELSE t[k]]

swap_overwrite(t, a, b) == [t EXCEPT ![a] = t[b]]

\* slice::swap(a, b), the step of rng.shuffle
swap(t, a, b) == [t EXCEPT ![a] = t[b], ![b] = t[a]]

\* TileMap::width / height: dim is never negative (empty's try_into), so the
\* `as u32` cast keeps the value.
width == dim[1]
height == dim[2]

\* The TileView that get_tile / get_tiles build at coord.
MkView(coord) == [coord |-> coord, n_mines |-> n_mines, dim |-> dim]

\* TileView::tile_state: the index of the view's cell
tile_state(v) == v.coord[2] * v.dim[1] + v.coord[1]

\* TileView::state, reading buffer t
state(t, v) ==
    IF t[tile_state(v)] < 0 THEN Mine ELSE Clear(AsU8(t[tile_state(v)]))

is_mine_nonzero(t, v) == t[tile_state(v)] # 0

\* TileView::is_mine
is_mine(t, v) == state(t, v) = Mine

set_state_private(t, v, s) == t

set_state_min_sentinel(t, v, s) ==
    [t EXCEPT ![tile_state(v)] = IF s = Mine THEN -128 ELSE AsI8(s[2])]

\* TileView::set_state, writing buffer t
set_state(t, v, s) ==
    [t EXCEPT ![tile_state(v)] = IF s = Mine THEN -1 ELSE AsI8(s[2])]

\* TileMap::get_tile
get_tile(coord) == IF bound_check(coord, dim) THEN Some(MkView(coord)) ELSE None

\* TileView::try_with_coordinate
try_with_coordinate(v, coord) ==
    IF bound_check(coord, v.dim) THEN Some([v EXCEPT !.coord = coord]) ELSE None

\* TileView::with_coordinate, where bound_check_assert passes
with_coordinate(v, coord) == [v EXCEPT !.coord = coord]

NEIGHBORS_swapped ==
    << <<0, -1>>, <<-1, -1>>, <<1, -1>>, <<-1, 0>>,
       <<1, 0>>, <<-1, 1>>, <<0, 1>>, <<1, 1>> >>

NEIGHBORS_seven ==
    << <<-1, -1>>, <<0, -1>>, <<1, -1>>, <<-1, 0>>,
       <<1, 0>>, <<-1, 1>>, <<0, 1>> >>

\* const NEIGHBORS: [[i32; 2]; 8]
NEIGHBORS ==
    << <<-1, -1>>, <<0, -1>>, <<1, -1>>, <<-1, 0>>,
       <<1, 0>>, <<-1, 1>>, <<0, 1>>, <<1, 1>> >>

\* TileView::neighbors: filter_map over NEIGHBORS, in order
neighbors(v) ==
    LET cand == [k \in 1 .. Len(NEIGHBORS) |-> Add(v.coord, NEIGHBORS[k])]
        kept == SelectSeq(cand, LAMBDA c : bound_check(c, v.dim))
    IN  [k \in 1 .. Len(kept) |-> with_coordinate(v, kept[k])]

\* itertools cartesian_product of the ranges 0..a and 0..b, first range outer
RECURSIVE cartesian_product(_, _, _)
cartesian_product(a, b, k) ==
    IF k >= a * b THEN <<>>
    ELSE <<<<k \div b, k % b>>>> \o cartesian_product(a, b, k + 1)

coords_column_major ==
    LET prod == cartesian_product(dim[1], dim[2], 0)
    IN  [k \in 1 .. Len(prod) |-> <<prod[k][1], prod[k][2]>>]

\* TileMap::coords: (0..height).cartesian_product(0..width).map(|(y, x)| (x, y))
coords ==
    LET prod == cartesian_product(dim[2], dim[1], 0)
    IN  [k \in 1 .. Len(prod) |-> <<prod[k][2], prod[k][1]>>]

get_tiles_until_none(cs) ==
    LET RECURSIVE upto(_)
        upto(k) == IF k > Len(cs) \/ get_tile(cs[k]) = None
                   THEN <<>> ELSE <<get_tile(cs[k])>> \o upto(k + 1)
    IN  upto(1)

\* TileMap::get_tiles over a sequence of coordinates
get_tiles(cs) == [k \in 1 .. Len(cs) |-> get_tile(cs[k])]

\* TileMap::all_tiles, where every unwrap passes
all_tiles ==
    LET got == get_tiles(coords)
    IN  [k \in 1 .. Len(got) |-> got[k][1]]

\* tile.neighbors().filter(|tile| tile.is_mine()).count()
adj_mines(t, v) == Len(SelectSeq(neighbors(v), LAMBDA nb : is_mine(t, nb)))

\* The for_each closure of random: tile.tile_state().set(adj_mines as i8)
derive_tile(t, tile) ==
    [t EXCEPT ![tile_state(tile)] = AsI8(adj_mines(t, tile))]

----------------------------------------------------------------------------
(* State machine *)

NoCall == [fn |-> "none", width |-> 0, height |-> 0, n_mines |-> 0]
NoOp == [name |-> "none", view |-> "A", coord |-> <<0, 0>>, state |-> Mine]
NoViews == [v \in ViewIds |-> None]

Init ==
    /\ pc = "start"
    /\ call = NoCall
    /\ n_mines = 0
    /\ dim = <<0, 0>>
    /\ tiles = <<>>
    /\ i = 0
    /\ views = NoViews
    /\ op = NoOp
    /\ ret = <<>>
    /\ writes = 0
    /\ visited = {}

\* TileMap::empty(w, h)
Empty ==
    /\ pc = "start"
    /\ \E w \in 0 .. MaxWidth, h \in 0 .. MaxHeight :
        /\ w * h <= MaxArea
        /\ call' = [fn |-> "empty", width |-> w, height |-> h, n_mines |-> 0]
        /\ n_mines' = 0
        /\ dim' = <<w, h>>
        /\ tiles' = empty_tiles(w, h)
    /\ pc' = "ready"
    /\ UNCHANGED <<i, views, op, ret, writes, visited>>

\* TileMap::random(w, h, n) up to the start of rng.shuffle: empty, then fill.
\* When the slice index fails the call panics and no map exists.
Random ==
    /\ pc = "start"
    /\ \E w \in 0 .. MaxWidth, h \in 0 .. MaxHeight :
       \E n \in 0 .. (w * h + 1) :
        /\ w * h <= MaxArea
        /\ call' = [fn |-> "random", width |-> w, height |-> h, n_mines |-> n]
        /\ IF fill_panics(empty_tiles(w, h), n)
           THEN /\ pc' = "panicked"
                /\ UNCHANGED <<n_mines, dim, tiles, i>>
           ELSE /\ pc' = "shuffle"
                /\ n_mines' = 0
                /\ dim' = <<w, h>>
                /\ tiles' = fill(empty_tiles(w, h), n)
                /\ i' = w * h - 1
    /\ UNCHANGED <<views, op, ret, writes, visited>>

\* One iteration of rng.shuffle(&mut board.tiles): for idx in (1..len).rev(),
\* swap idx with a random index of 0..=idx.
ShuffleStep ==
    /\ pc = "shuffle"
    /\ i >= 1
    /\ \E j \in 0 .. i : tiles' = swap(tiles, i, j)
    /\ i' = i - 1
    /\ UNCHANGED <<pc, call, n_mines, dim, views, op, ret, writes, visited>>

\* The shuffle's loop ends; the derivation pass starts at the first tile.
ShuffleEnd ==
    /\ pc = "shuffle"
    /\ i < 1
    /\ pc' = "derive"
    /\ i' = 0
    /\ UNCHANGED <<call, n_mines, dim, tiles, views, op, ret, writes, visited>>

\* One tile of all_tiles().filter(!is_mine).for_each(set adj_mines as i8).
DeriveStep ==
    /\ pc = "derive"
    /\ i < Len(all_tiles)
    /\ LET tile == all_tiles[i + 1]
       IN  IF is_mine(tiles, tile)
           THEN UNCHANGED <<tiles, visited>>
           ELSE /\ tiles' = derive_tile(tiles, tile)
                /\ visited' = visited \cup {i + 1}
    /\ i' = i + 1
    /\ UNCHANGED <<pc, call, n_mines, dim, views, op, ret, writes>>

\* all_tiles() is exhausted: random returns the board.
RandomReturn ==
    /\ pc = "derive"
    /\ i >= Len(all_tiles)
    /\ pc' = "ready"
    /\ UNCHANGED <<call, n_mines, dim, tiles, i, views, op, ret, writes, visited>>

\* The derivation pass with the tiles taken in any order: the filter and the
\* for_each closure of random run on some tile of all_tiles() not yet written.
DeriveAnyOrder ==
    /\ pc = "derive"
    /\ \E k \in (1 .. Len(all_tiles)) \ visited :
        /\ ~is_mine(tiles, all_tiles[k])
        /\ tiles' = derive_tile(tiles, all_tiles[k])
        /\ visited' = visited \cup {k}
    /\ UNCHANGED <<pc, call, n_mines, dim, i, views, op, ret, writes>>

\* Every tile that is not a mine has been written: random returns the board.
ReturnAnyOrder ==
    /\ pc = "derive"
    /\ \A k \in 1 .. Len(all_tiles) :
        is_mine(tiles, all_tiles[k]) \/ k \in visited
    /\ pc' = "ready"
    /\ UNCHANGED <<call, n_mines, dim, tiles, i, views, op, ret, writes, visited>>

\* The coordinates callers pass: the map's grid and one step beyond each edge.
CoordInputs == (-1 .. dim[1]) \X (-1 .. dim[2])

\* The states callers pass to set_state.
TileStates == {Mine} \cup {Clear(n) : n \in 0 .. 8}

\* Every value of TileState: Clear carries a u8
U8States == {Mine} \cup {Clear(n) : n \in 0 .. 255}

Op(name, v, coord, s) == [name |-> name, view |-> v, coord |-> coord, state |-> s]

\* let A = map.get_tile(c).  A TileMap method borrows the map, which ends the
\* lifetime of every earlier view.  Called while fewer than limit writes have
\* been made, on a map of at most area cells.
GetTileIn(limit, area) ==
    /\ pc = "ready"
    /\ writes < limit
    /\ TilesLen(tiles) <= area
    /\ \E c \in CoordInputs :
        /\ views' = [NoViews EXCEPT !["A"] = get_tile(c)]
        /\ op' = Op("get_tile", "A", c, Mine)
    /\ ret' = <<>>
    /\ UNCHANGED <<pc, call, n_mines, dim, tiles, i, writes, visited>>

GetTile == GetTileIn(MaxWrites, MaxArea)

\* get_tile between the set_state calls of a sequence
GetTileSeq == GetTileIn(MaxWriteSeq, MaxWriteArea)

\* let A = map.tile(c): get_tile(c).unwrap()
Tile ==
    /\ pc = "ready"
    /\ writes < MaxWrites
    /\ \E c \in CoordInputs :
        /\ pc' = IF get_tile(c) = None THEN "panicked" ELSE "ready"
        /\ views' = [NoViews EXCEPT !["A"] = get_tile(c)]
        /\ op' = Op("tile", "A", c, Mine)
    /\ ret' = <<>>
    /\ UNCHANGED <<call, n_mines, dim, tiles, i, writes, visited>>

\* let B = v.try_with_coordinate(c), v a live view (TileView is Copy)
TryWithCoordinate ==
    /\ pc = "ready"
    /\ writes < MaxWrites
    /\ \E v \in ViewIds, c \in CoordInputs :
        /\ views[v] # None
        /\ views' = [views EXCEPT !["B"] = try_with_coordinate(views[v][1], c)]
        /\ op' = Op("try_with_coordinate", v, c, Mine)
    /\ ret' = <<>>
    /\ UNCHANGED <<pc, call, n_mines, dim, tiles, i, writes, visited>>

\* let B = v.with_coordinate(c): bound_check_assert, then the moved view
WithCoordinate ==
    /\ pc = "ready"
    /\ writes < MaxWrites
    /\ \E v \in ViewIds, c \in CoordInputs :
        /\ views[v] # None
        /\ IF bound_check(c, views[v][1].dim)
           THEN /\ pc' = "ready"
                /\ views' = [views EXCEPT
                                !["B"] = Some(with_coordinate(views[v][1], c))]
           ELSE /\ pc' = "panicked"
                /\ views' = NoViews
        /\ op' = Op("with_coordinate", v, c, Mine)
    /\ ret' = <<>>
    /\ UNCHANGED <<call, n_mines, dim, tiles, i, writes, visited>>

\* The deltas callers pass to step: the 8 directions, no move, and the ends
\* of the i32 range.
DeltaInputs == {I32Min, -1, 0, 1, I32Max} \X {I32Min, -1, 0, 1, I32Max}

\* let B = v.step(delta): try_with_coordinate(delta + coord).  The sum is a
\* plain i32 `+` per component: when it overflows, a build with overflow
\* checks (debug) panics and a build without them (release) wraps.
Step ==
    /\ pc = "ready"
    /\ writes < MaxWrites
    /\ \E v \in ViewIds, delta \in DeltaInputs, overflow_checks \in BOOLEAN :
        /\ views[v] # None
        /\ LET c == views[v][1].coord
               sum == <<wrapping_add(delta[1], c[1]), wrapping_add(delta[2], c[2])>>
           IN  IF /\ overflow_checks
                  /\ add_overflows(delta[1], c[1]) \/ add_overflows(delta[2], c[2])
               THEN /\ pc' = "panicked"
                    /\ views' = NoViews
               ELSE /\ pc' = "ready"
                    /\ views' = [views EXCEPT
                                    !["B"] = try_with_coordinate(views[v][1], sum)]
        /\ op' = Op("step", v, delta, Mine)
    /\ ret' = <<>>
    /\ UNCHANGED <<call, n_mines, dim, tiles, i, writes, visited>>

\* v.neighbors(), collected
Neighbors ==
    /\ pc = "ready"
    /\ writes < MaxWrites
    /\ \E v \in ViewIds :
        /\ views[v] # None
        /\ ret' = neighbors(views[v][1])
        /\ op' = Op("neighbors", v, views[v][1].coord, Mine)
    /\ UNCHANGED <<pc, call, n_mines, dim, tiles, i, views, writes, visited>>

\* map.coords(), collected
Coords ==
    /\ pc = "ready"
    /\ writes < MaxWrites
    /\ ret' = coords
    /\ op' = Op("coords", "A", <<0, 0>>, Mine)
    /\ views' = NoViews
    /\ UNCHANGED <<pc, call, n_mines, dim, tiles, i, writes, visited>>

\* map.all_tiles(), collected: get_tiles(coords()).map(Option::unwrap)
AllTiles ==
    /\ pc = "ready"
    /\ writes < MaxWrites
    /\ pc' = IF \E k \in 1 .. Len(coords) : get_tiles(coords)[k] = None
             THEN "panicked" ELSE "ready"
    /\ LET got == SelectSeq(get_tiles(coords), LAMBDA o : o # None)
       IN  ret' = [k \in 1 .. Len(got) |-> got[k][1]]
    /\ op' = Op("all_tiles", "A", <<0, 0>>, Mine)
    /\ views' = NoViews
    /\ UNCHANGED <<call, n_mines, dim, tiles, i, writes, visited>>

\* v.set_state(s), v a live view: at most limit calls in a run, on a map of
\* at most area cells, with s taken from S
SetStateIn(limit, area, S) ==
    /\ pc = "ready"
    /\ writes < limit
    /\ TilesLen(tiles) <= area
    /\ \E v \in ViewIds, s \in S :
        /\ views[v] # None
        /\ tiles' = set_state(tiles, views[v][1], s)
        /\ op' = Op("set_state", v, views[v][1].coord, s)
    /\ writes' = writes + 1
    /\ ret' = <<>>
    /\ UNCHANGED <<pc, call, n_mines, dim, i, views, visited>>

SetState == SetStateIn(MaxWrites, MaxArea, TileStates)

\* set_state calls one after another, each with Mine or Clear(0 ..= 8)
SetStateSeq == SetStateIn(MaxWriteSeq, MaxWriteArea, TileStates)

\* set_state with any TileState
SetStateU8 == SetStateIn(MaxCastWrites, MaxCastArea, U8States)

\* let it = map.get_tiles(cs): the iterator is lazy, nothing is consumed
\* yet.  The record's coord field holds the coordinates consumed so far.
GetTiles ==
    /\ pc = "ready"
    /\ writes < MaxWrites
    /\ ret' = get_tiles(<<>>)
    /\ op' = Op("get_tiles", "A", <<>>, Mine)
    /\ views' = NoViews
    /\ UNCHANGED <<pc, call, n_mines, dim, tiles, i, writes, visited>>

\* it.next(): the iterator takes the next coordinate c of cs; ret collects
\* what it has yielded.
GetTilesNext ==
    /\ pc = "ready"
    /\ op.name = "get_tiles"
    /\ Len(op.coord) < MaxCoords
    /\ \E c \in CoordInputs :
        /\ ret' = get_tiles(Append(op.coord, c))
        /\ op' = Op("get_tiles", "A", Append(op.coord, c), Mine)
    /\ UNCHANGED <<pc, call, n_mines, dim, tiles, i, views, writes, visited>>

NextGen == Empty \/ Random \/ ShuffleStep \/ ShuffleEnd \/ DeriveStep \/ RandomReturn

\* The constructors alone.
SpecGen == Init /\ [][NextGen]_vars

NextView ==
    \/ Empty \/ GetTile \/ Tile \/ TryWithCoordinate \/ WithCoordinate
    \/ Neighbors \/ Coords \/ AllTiles

\* The read-only operations on a map built by empty.
SpecView == Init /\ [][NextView]_vars

NextAlias == Empty \/ GetTile \/ TryWithCoordinate \/ SetState

\* Views of one map built by empty, and writes through them.
SpecAlias == Init /\ [][NextAlias]_vars

NextTiles == Empty \/ GetTiles \/ GetTilesNext

\* get_tiles on a map built by empty.
SpecTiles == Init /\ [][NextTiles]_vars

NextStep == Empty \/ GetTile \/ TryWithCoordinate \/ WithCoordinate \/ Step

\* Moving views around a map built by empty.
SpecStep == Init /\ [][NextStep]_vars

NextWrites == NextGen \/ GetTileSeq \/ SetStateSeq

\* Maps built by empty or random, then written through views.
SpecWrites == Init /\ [][NextWrites]_vars

NextCast == Empty \/ GetTile \/ SetStateU8

\* Maps built by empty, written with any TileState.
SpecCast == Init /\ [][NextCast]_vars

NextOrder ==
    Random \/ ShuffleStep \/ ShuffleEnd \/ DeriveAnyOrder \/ ReturnAnyOrder

\* random with its derivation pass free to take the tiles in any order; the
\* row-major order of all_tiles() is one of them.
SpecOrder == Init /\ [][NextOrder]_vars

Next ==
    \/ NextGen \/ NextView \/ NextAlias \/ NextTiles \/ NextStep
    \/ NextWrites \/ NextCast

Spec == Init /\ [][Next]_vars

----------------------------------------------------------------------------
(* Properties of the constructors, checked under SpecGen *)

\* The coordinates of [0, width) x [0, height) for the constructor's arguments.
GridCoords ==
    {c \in (0 .. call.width - 1) \X (0 .. call.height - 1) : TRUE}

MineCoords == {c \in GridCoords : state(tiles, MkView(c)) = Mine}
ClearCoords == {c \in GridCoords : state(tiles, MkView(c))[1] = "Clear"}

\* The mines among the in-bounds cells at Chebyshev distance 1 of c.
MinesAround(c) ==
    {d \in MineCoords :
        /\ d # c
        /\ d[1] - c[1] \in {-1, 0, 1}
        /\ d[2] - c[2] \in {-1, 0, 1}}

\* C1: for width, height >= 1 and 0 <= n <= width*height, the map random
\* returns has exactly n Mine cells and width*height - n Clear cells, whatever
\* the shuffle picked; n = width*height leaves no Clear cell and n = 0 leaves
\* every cell Clear(0).
C1_RandomMineCount ==
    (/\ pc = "ready" /\ call.fn = "random"
     /\ call.width >= 1 /\ call.height >= 1
     /\ call.n_mines <= call.width * call.height)
    => /\ TilesLen(tiles) = call.width * call.height
       /\ Cardinality(MineCoords) = call.n_mines
       /\ Cardinality(ClearCoords) = call.width * call.height - call.n_mines
       /\ call.n_mines = call.width * call.height => MineCoords = GridCoords
       /\ call.n_mines = 0 =>
            \A c \in GridCoords : state(tiles, MkView(c)) = Clear(0)

\* random returned a map with mines and clear cells whose first cell, filled
\* with a mine before the shuffle, is clear.
C1_Witness ==
    /\ pc = "ready" /\ call.fn = "random"
    /\ call.width >= 2 /\ call.height >= 2
    /\ call.n_mines >= 2 /\ call.n_mines < call.width * call.height
    /\ tiles[0] >= 0

\* C2: in every map random returns, a cell in state Clear(k) has exactly k
\* mines among its in-bounds 8-neighbours.
C2_ClearCountsExact ==
    (pc = "ready" /\ call.fn = "random")
    => \A c \in ClearCoords :
        state(tiles, MkView(c)) = Clear(Cardinality(MinesAround(c)))

\* random returned a map with a clear cell that has 3 mines around it and a
\* clear cell that has 1.
C2_Witness ==
    /\ pc = "ready" /\ call.fn = "random"
    /\ \E c \in ClearCoords : state(tiles, MkView(c)) = Clear(3)
    /\ \E c \in ClearCoords : state(tiles, MkView(c)) = Clear(1)

\* C3: right after random, n_mines() equals the number of Mine cells in the
\* storage.
C3_NMinesMatchesStorage ==
    (pc = "ready" /\ call.fn = "random")
    => n_mines = Cardinality({k \in DOMAIN tiles : tiles[k] < 0})

\* C9: empty(width, height) returns a map of exactly width*height cells, all
\* Clear(0), with n_mines() = 0 and width() and height() equal to the
\* arguments; a width or height of 0 is accepted and gives a map of no tiles.
C9_EmptyMap ==
    /\ call.fn = "empty" => pc = "ready"
    /\ (pc = "ready" /\ call.fn = "empty")
       => /\ TilesLen(tiles) = call.width * call.height
          /\ DOMAIN tiles = 0 .. (call.width * call.height - 1)
          /\ \A c \in GridCoords : state(tiles, MkView(c)) = Clear(0)
          /\ \A k \in DOMAIN tiles : tiles[k] = 0
          /\ n_mines = 0
          /\ width = call.width /\ height = call.height
          /\ (call.width = 0 \/ call.height = 0)
             => (tiles = <<>> /\ coords = <<>> /\ all_tiles = <<>>)

\* empty returned a grid of several rows and columns.
C9_Witness ==
    /\ pc = "ready" /\ call.fn = "empty"
    /\ call.width >= 2 /\ call.height >= 3
    /\ TilesLen(tiles) = call.width * call.height

\* C10: random with n_mines > width*height fails: the call panics and no map
\* is returned, so no board with a clamped mine count ever exists.
C10_TooManyMinesFails ==
    (call.fn = "random" /\ call.n_mines > call.width * call.height)
    => pc = "panicked"

\* random was called with one mine more than the grid has cells, and panicked.
C10_Witness ==
    /\ pc = "panicked" /\ call.fn = "random"
    /\ call.width >= 2 /\ call.height >= 2
    /\ call.n_mines = call.width * call.height + 1

----------------------------------------------------------------------------
(* Properties of the coordinate entry points and views, checked under      *)
(* SpecView                                                                *)

\* c lies outside [0, width) x [0, height) of the map.
OutOfGrid(c) == c[1] < 0 \/ c[1] >= dim[1] \/ c[2] < 0 \/ c[2] >= dim[2]

\* The view of the map at c, field by field.
ViewAt(c) == [coord |-> c, n_mines |-> n_mines, dim |-> dim]

\* C4: get_tile(c) is absent iff c.x < 0 or c.x >= width or c.y < 0 or
\* c.y >= height, and a view it returns has coord() = c; tile(c) panics in
\* exactly those cases and otherwise returns the same view.
C4_GetTileBounds ==
    /\ op.name = "get_tile"
       => /\ pc = "ready"
          /\ views["A"] = None <=> OutOfGrid(op.coord)
          /\ views["A"] # None => views["A"] = Some(ViewAt(op.coord))
    /\ op.name = "tile"
       => /\ pc = "panicked" <=> OutOfGrid(op.coord)
          /\ pc # "panicked" => views["A"] = Some(ViewAt(op.coord))

\* get_tile was asked for x = width, y in the grid, and returned None.
C4_Witness ==
    /\ op.name = "get_tile"
    /\ dim[1] >= 2 /\ dim[2] >= 2
    /\ op.coord = <<dim[1], 1>>
    /\ views["A"] = None

OnEdgeX(c) == c[1] = 0 \/ c[1] = dim[1] - 1
OnEdgeY(c) == c[2] = 0 \/ c[2] = dim[2] - 1

\* The number of views neighbors() must yield at c by C5's three cases.
C5_Expected(c) ==
    IF OnEdgeX(c) /\ OnEdgeY(c) THEN 3
    ELSE IF OnEdgeX(c) \/ OnEdgeY(c) THEN 5
    ELSE 8

\* C5 as stated: on every grid, neighbors() yields 8 views at a coordinate
\* touching no edge, 3 at a corner and 5 at a non-corner edge coordinate.
C5_NeighborCountsAnyGrid ==
    op.name = "neighbors" => Len(ret) = C5_Expected(op.coord)

\* C5, amended: the same on every grid of width >= 2 and height >= 2.
C5_NeighborCounts ==
    (op.name = "neighbors" /\ dim[1] >= 2 /\ dim[2] >= 2)
    => Len(ret) = C5_Expected(op.coord)

\* neighbors() was taken at a coordinate touching no edge.
C5_Witness ==
    /\ op.name = "neighbors"
    /\ ~OnEdgeX(op.coord) /\ ~OnEdgeY(op.coord)
    /\ Len(ret) = 8

\* C6: neighbors() at c yields the views at c + d for d in the order
\* (-1,-1),(0,-1),(1,-1),(-1,0),(1,0),(-1,1),(0,1),(1,1), leaving out the
\* targets out of bounds: nothing repeated, nothing wrapped around an edge,
\* never c itself, and nothing at all on a 1x1 grid.
C6_NeighborsOrder ==
    op.name = "neighbors" =>
        LET c == op.coord
            dx == <<-1, 0, 1, -1, 1, -1, 0, 1>>
            dy == <<-1, -1, -1, 0, 0, 1, 1, 1>>
            target == [k \in 1 .. 8 |-> <<c[1] + dx[k], c[2] + dy[k]>>]
            expected == SelectSeq(target, LAMBDA d : ~OutOfGrid(d))
        IN  /\ ret = [k \in 1 .. Len(expected) |-> ViewAt(expected[k])]
            /\ \A j, k \in 1 .. Len(ret) : j # k => ret[j].coord # ret[k].coord
            /\ \A k \in 1 .. Len(ret) :
                /\ ret[k].coord # c
                /\ ret[k].coord[1] - c[1] \in {-1, 0, 1}
                /\ ret[k].coord[2] - c[2] \in {-1, 0, 1}
            /\ dim = <<1, 1>> => ret = <<>>

\* neighbors() was taken on the left edge, below the top and above the bottom,
\* where three of the offsets leave the grid.
C6_Witness ==
    /\ op.name = "neighbors"
    /\ op.coord[1] = 0 /\ dim[1] >= 2
    /\ ~OnEdgeY(op.coord)
    /\ Len(ret) = 5

\* C7: coords() yields each coordinate of [0, width) x [0, height) once, row
\* by row (the k-th is (k mod width, k div width)), nothing when width or
\* height is 0, and so the same sequence at every call; all_tiles() yields
\* the views at those coordinates in that order and its unwrap never panics.
C7_CoordsRowMajor ==
    /\ op.name = "coords"
       => /\ Len(ret) = dim[1] * dim[2]
          /\ \A k \in 1 .. Len(ret) :
                ret[k] = <<(k - 1) % dim[1], (k - 1) \div dim[1]>>
          /\ \A c \in (0 .. dim[1] - 1) \X (0 .. dim[2] - 1) :
                Cardinality({k \in 1 .. Len(ret) : ret[k] = c}) = 1
          /\ (dim[1] = 0 \/ dim[2] = 0) => ret = <<>>
    /\ op.name = "all_tiles"
       => /\ pc = "ready"
          /\ Len(ret) = dim[1] * dim[2]
          /\ \A k \in 1 .. Len(ret) :
                ret[k] = ViewAt(<<(k - 1) % dim[1], (k - 1) \div dim[1]>>)

\* coords() was taken on a grid of several rows, wider than high.
C7_Witness ==
    /\ op.name = "coords"
    /\ dim[1] >= 3 /\ dim[2] = 2
    /\ Len(ret) = dim[1] * dim[2]

----------------------------------------------------------------------------
(* Aliasing, checked under SpecAlias *)

\* C8: after a view at c writes s (Mine or Clear(0..8)) with set_state, every
\* live view at c reads s with state(), and the state at every other
\* coordinate is what it was.
C8_AliasedWrite ==
    [][(op'.name = "set_state" /\ writes' = writes + 1) =>
        LET c == views'[op'.view][1].coord
        IN  /\ c = op'.coord
            /\ \A b \in ViewIds :
                (views'[b] # None /\ views'[b][1].coord = c)
                => state(tiles', views'[b][1]) = op'.state
            /\ \A d \in (0 .. dim[1] - 1) \X (0 .. dim[2] - 1) :
                d # c => state(tiles', ViewAt(d)) = state(tiles, ViewAt(d))
      ]_vars

\* View A wrote Clear(8) while view B stood at the same coordinate, away from
\* the first cell.
C8_Witness ==
    /\ op.name = "set_state" /\ op.view = "A" /\ op.state = Clear(8)
    /\ views["A"] # None /\ views["B"] # None
    /\ views["A"][1].coord = views["B"][1].coord
    /\ views["B"][1].coord = <<1, 1>>
    /\ state(tiles, views["B"][1]) = Clear(8)

----------------------------------------------------------------------------
(* get_tiles, checked under SpecTiles *)

\* C11: get_tiles(cs) yields one element per coordinate of cs, in order: the
\* k-th is the view at cs[k] when cs[k] is in bounds and None otherwise,
\* whatever the other coordinates are (out of bounds or repeated).
C11_GetTilesPerCoordinate ==
    op.name = "get_tiles" =>
        /\ pc = "ready"
        /\ Len(ret) = Len(op.coord)
        /\ \A k \in 1 .. Len(op.coord) :
            ret[k] = IF OutOfGrid(op.coord[k])
                     THEN None ELSE Some(ViewAt(op.coord[k]))

\* get_tiles was given an out-of-bounds coordinate, then an in-bounds one
\* twice.
C11_Witness ==
    /\ op.name = "get_tiles"
    /\ Len(op.coord) = 3
    /\ OutOfGrid(op.coord[1]) /\ ~OutOfGrid(op.coord[2])
    /\ op.coord[3] = op.coord[2]
    /\ ret[1] = None /\ ret[2] # None /\ ret[3] = ret[2]

----------------------------------------------------------------------------
(* The try / get operations, checked under SpecStep *)

\* c + d, as integers, lies in [0, size).
SumInRange(c, d, size) == d >= -c /\ d <= size - 1 - c

\* What C12 says the operations return when they return: a view at the target
\* when it is in bounds and None otherwise, and with_coordinate panicking
\* exactly where try_with_coordinate returns None.
C12_Results ==
    /\ (op.name = "try_with_coordinate" /\ pc = "ready")
       => views["B"] = IF OutOfGrid(op.coord)
                       THEN None ELSE Some(ViewAt(op.coord))
    /\ (op.name = "step" /\ op.view = "A" /\ pc = "ready")
       => LET c == views["A"][1].coord
              d == op.coord
          IN  views["B"] =
                IF SumInRange(c[1], d[1], dim[1]) /\ SumInRange(c[2], d[2], dim[2])
                THEN Some(ViewAt(<<c[1] + d[1], c[2] + d[2]>>)) ELSE None
    /\ op.name = "with_coordinate"
       => (pc = "panicked" <=> OutOfGrid(op.coord))

\* C12: get_tile, try_with_coordinate and step never fail, for every i32
\* coordinate or delta, also when coord() + delta does not fit an i32: they
\* return a view when the target is in bounds and None otherwise;
\* with_coordinate panics exactly where try_with_coordinate returns None.
C12_TryGetNeverFail ==
    /\ op.name \in {"get_tile", "try_with_coordinate", "step"} => pc = "ready"
    /\ C12_Results

----------------------------------------------------------------------------
(* The derivation pass, checked under SpecOrder *)

\* The cells of buffer t that hold a mine.
MineIdx(t) == {k \in DOMAIN t : t[k] < 0}

\* The mines of buffer t among the in-bounds cells around cell k.
MinesAroundIdx(t, k) ==
    {m \in MineIdx(t) :
        /\ m # k
        /\ (m % dim[1]) - (k % dim[1]) \in {-1, 0, 1}
        /\ (m \div dim[1]) - (k \div dim[1]) \in {-1, 0, 1}}

\* C13: no write of the derivation pass changes a Mine cell or makes a Clear
\* cell a Mine (the mines are the same before and after every step), and in
\* whatever order the non-mine cells are taken the returned buffer is the
\* one the mines alone determine: -1 at a mine, the number of mines around
\* it elsewhere.
C13_DerivationKeepsMines ==
    [][pc = "derive" =>
        /\ MineIdx(tiles') = MineIdx(tiles)
        /\ \A k \in MineIdx(tiles) : tiles'[k] = tiles[k]
        /\ pc' = "ready" =>
            \A k \in DOMAIN tiles' :
                tiles'[k] = IF k \in MineIdx(tiles) THEN -1
                            ELSE Cardinality(MinesAroundIdx(tiles, k))
      ]_vars

\* The derivation has rewritten a cell to a count above 0 while a cell before
\* it in all_tiles() order, next to it and not a mine, is still to be taken.
C13_Witness ==
    /\ pc = "derive"
    /\ \E a, b \in 1 .. Len(all_tiles) :
        /\ a < b
        /\ b \in visited /\ tiles[b - 1] > 0
        /\ a \notin visited /\ tiles[a - 1] >= 0
        /\ \E nb \in 1 .. Len(neighbors(all_tiles[a])) :
            neighbors(all_tiles[a])[nb] = all_tiles[b]

----------------------------------------------------------------------------
(* Stored values, checked under SpecWrites and SpecCast *)

\* C14: whenever a map exists (empty or random has run, followed by any
\* set_state calls with Mine or Clear(0 ..= 8)), every stored cell is -1 or
\* in 0 .. 8 and the buffer has width * height cells.
C14_StoredValuesInRange ==
    pc \in {"shuffle", "derive", "ready"} =>
        /\ \A k \in DOMAIN tiles : tiles[k] = -1 \/ tiles[k] \in 0 .. 8
        /\ TilesLen(tiles) = call.width * call.height
        /\ TilesLen(tiles) = width * height

\* A board from random has been written twice or more, the last write a
\* Clear(8) or a Mine, and holds both an 8 and a mine.
C14_Witness ==
    /\ pc = "ready"
    /\ call.fn = "random"
    /\ writes >= 2
    /\ op.name = "set_state"
    /\ op.state \in {Mine, Clear(8)}
    /\ \E k, m \in DOMAIN tiles : tiles[k] = 8 /\ tiles[m] = -1

\* C15: after v.set_state(Clear(n)) the call has returned and v.state() is
\* Clear(n) when n <= 127; when n >= 128 the stored value is negative,
\* v.state() is Mine and v.is_mine() is true.
C15_CastRoundTrip ==
    (op.name = "set_state" /\ op.state # Mine) =>
        LET v == views[op.view][1]
            n == op.state[2]
        IN  /\ pc = "ready"
            /\ n <= 127 =>
                /\ state(tiles, v) = Clear(n)
                /\ ~is_mine(tiles, v)
            /\ n >= 128 =>
                /\ tiles[tile_state(v)] = n - 256
                /\ state(tiles, v) = Mine
                /\ is_mine(tiles, v)

\* set_state(Clear(200)) has been called and the cell reads as a mine.
C15_Witness ==
    /\ op.name = "set_state"
    /\ op.state = Clear(200)
    /\ is_mine(tiles, views[op.view][1])

\* set_state(Clear(127)) has been called and the cell reads Clear(127).
C15_WitnessStorable ==
    /\ op.name = "set_state"
    /\ op.state = Clear(127)
    /\ state(tiles, views[op.view][1]) = Clear(127)

====
